---- MODULE Spec2Model ----
(***************************************************************************)
(* Model of tooling/bundler/src/bundle/macos/dmg.rs: bundle_project, the   *)
(* DMG assembly pipeline.  One action per statement group of the function; *)
(* every fallible call has one disjunct per outcome it can produce.        *)
(*                                                                         *)
(* Paths are sequences of components (an absolute path starts with the     *)
(* root component "/"); Option<T> is a sequence of length 0 (None) or 1    *)
(* (Some); files on disk carry the number of the run that wrote them (0    *)
(* for content that predates the first run).                               *)
(***************************************************************************)
EXTENDS Integers, Sequences, FiniteSets, TLC

VARIABLES
  settings,        \* &Settings: read-only input of every run
  bundles,         \* &[Bundle]: package types produced so far (per run)
  ci,              \* what env::var_os("CI") returned to this run
  cwd,             \* what env::current_dir() returned to this run
  calls,           \* calls of bundle_project the caller has yet to make
  run,             \* number of calls of bundle_project started so far
  clean,           \* this run started with nothing under the output directory
  pc,              \* position inside bundle_project ("idle" between calls)
  files,           \* regular files on disk: set of [path, by]
  dirs,            \* directories on disk under the output directory
  args,            \* the local `args` vector
  index,           \* enumerate() index of the attachments.chunks(2) loop
  log,             \* fallible operations performed by this run, in order
  signCalls,       \* calls of sign::sign made by this run
  handed,          \* Option: the Command spawned for bundle_dmg.sh
  result,          \* what the call returned
  prev             \* the previous run's environment, command and result

vars == <<settings, bundles, ci, cwd, calls, run, clean, pc, files, dirs, args, index,
          log, signCalls, handed, result, prev>>

----------------------------------------------------------------------------
(* Bounds of the model *)

MaxRuns == 2
MaxBundles == 2
MaxAttachments == 5

----------------------------------------------------------------------------
(* Program constants *)

IconX == 75
IconY == 64
DropLinkX == 396
IconSize == 100
RowGap == 60
WindowWidth == 571
WindowHeight == 375

----------------------------------------------------------------------------
(* Option and path helpers *)

None == <<>>
Some(v) == <<v>>
IsSome(o) == Len(o) = 1
Last(s) == s[Len(s)]

\* Path::join: an absolute argument replaces the base
Join(base, p) == IF Len(p) > 0 /\ p[1] = "/" THEN p ELSE base \o p

\* Path::file_name: None when the path is empty, the root, or ends in ".."
file_name(p) ==
  IF Len(p) = 0 \/ Last(p) = ".." \/ Last(p) = "/" THEN None ELSE Some(Last(p))

RECURSIVE JoinSlash(_)
JoinSlash(p) ==
  IF Len(p) = 0 THEN ""
  ELSE IF Len(p) = 1 THEN p[1]
  ELSE p[1] \o "/" \o JoinSlash(Tail(p))

\* Path::to_string_lossy().to_string()
to_string_lossy(p) ==
  IF Len(p) > 0 /\ p[1] = "/" THEN "/" \o JoinSlash(Tail(p)) ELSE JoinSlash(p)

\* p is d or lies below d
Under(p, d) == Len(p) >= Len(d) /\ SubSeq(p, 1, Len(d)) = d

----------------------------------------------------------------------------
(* Path planning: lines 36-55, 68 *)

ArchUnchanged(a) == a
ArchName(a) == IF a = "x86_64" THEN "x64" ELSE a

output_path == settings.out \o <<"bundle", "dmg">>
package_base_name ==
  settings.name \o "_" \o settings.version \o "_" \o ArchName(settings.arch)
dmg_name_numbered == package_base_name \o "_" \o ToString(run) \o ".dmg"
dmg_name == package_base_name \o ".dmg"
dmg_path == output_path \o <<dmg_name>>
product_name == settings.name
bundle_file_name == product_name \o ".app"
bundle_dir == settings.out \o <<"bundle", "macos">>
support_directory_path == output_path \o <<"support">>
bundle_script_path == output_path \o <<"bundle_dmg.sh">>
applescript_path == support_directory_path \o <<"template.applescript">>
eula_template_path == support_directory_path \o <<"eula-resources-template.xml">>

----------------------------------------------------------------------------
(* Filesystem operations *)

Exists(p) == p \in dirs \/ \E f \in files : f.path = p

\* a removal that does not descend into subdirectories
RemoveTopLevelOnly(fs, d) == {f \in fs : ~(Under(f.path, d) /\ Len(f.path) = Len(d) + 1)}

\* fs::remove_dir_all(d), on success
RemoveDirAll(fs, d) == {f \in fs : ~Under(f.path, d)}
RemoveDirs(ds, d) == {x \in ds : ~Under(x, d)}

\* fs::write(p, ..) by the current run: creates or truncates p
WriteFile(fs, p) == {f \in fs : f.path # p} \cup {[path |-> p, by |-> run]}

\* fs::rename(from, to): `to` is replaced, the content keeps its writer
Rename(fs, from, to) ==
  {f \in fs : f.path # from /\ f.path # to}
    \cup {[path |-> to, by |-> f.by] : f \in {g \in fs : g.path = from}}

----------------------------------------------------------------------------
(* Results *)

NoResult == [kind |-> "none", paths |-> <<>>, stage |-> ""]
Ok(ps) == [kind |-> "ok", paths |-> ps, stage |-> ""]
Err(stage) == [kind |-> "err", paths |-> <<>>, stage |-> stage]
Panic(stage) == [kind |-> "panic", paths |-> <<>>, stage |-> stage]

Return(r) == pc' = "idle" /\ result' = r
DidAs(op, outcome) ==
  log' = Append(log, [op |-> op, ok |-> (outcome = "ok"), outcome |-> outcome])
Did(op, ok) == DidAs(op, IF ok THEN "ok" ELSE "failed")

----------------------------------------------------------------------------
(* Inputs *)

PackageTypes == {"MacOsBundle", "Deb"}
BundleLists == UNION {[1..n -> PackageTypes] : n \in 0..MaxBundles}

CIValues == {None, Some("true"), Some("1"), Some("false"), Some("TRUE")}
CwdValues == {<<"/", "work">>, <<"/", "ci">>}

\* attachment paths: two well-formed ones and one without a file name
GoodAttachments == {<<"assets", "README.md">>, <<"LICENSE">>}
BadAttachment == <<"assets", "..">>
AttachmentLists(S) == UNION {[1..n -> S] : n \in 0..MaxAttachments}

Backgrounds == {None, Some(<<"img", "bg.png">>), Some(<<"..">>)}
Licenses == {None, Some(<<"LICENSE.rtf">>), Some(<<"/", "legal", "EULA.rtf">>)}
Identities == {None, Some("Developer ID")}

\* content that may lie under the output directory before the first run
StaleFiles(s) ==
  LET out == s.out \o <<"bundle", "dmg">>
  IN  {[path |-> out \o <<"bundle_dmg.sh">>, by |-> 0],
       [path |-> out \o <<"support", "stale.txt">>, by |-> 0]}

DirsFor(s, fs) ==
  LET out == s.out \o <<"bundle", "dmg">>
  IN  {out : f \in fs} \cup
      {out \o <<"support">> : f \in {g \in fs : Under(g.path, out \o <<"support">>)}}

----------------------------------------------------------------------------
(* Line 25-34: generate the .app bundle if needed *)

\* a test of the first entry alone
FirstIsNotAppBundle(bs) == IF Len(bs) = 0 THEN TRUE ELSE bs[1] # "MacOsBundle"

NeedsAppBundle(bs) ==
  Cardinality({i \in 1..Len(bs) : bs[i] = "MacOsBundle"}) = 0

\* a call of bundle_project(settings, bundles) by the caller
Start ==
  /\ pc = "idle"
  /\ calls > 0
  /\ calls' = calls - 1
  /\ \E b \in BundleLists : bundles' = b
  /\ ci' = None /\ cwd' = <<>>
  /\ run' = run + 1
  /\ clean' = (files = {} /\ dirs = {})
  /\ pc' = "app"
  /\ args' = <<>> /\ index' = 0 /\ log' = <<>> /\ signCalls' = <<>>
  /\ handed' = None /\ result' = NoResult
  /\ prev' = [valid |-> run > 0, clean |-> clean, ci |-> ci, cwd |-> cwd,
              handed |-> handed, result |-> result]
  /\ UNCHANGED <<settings, files, dirs>>

\* between two calls the caller clears the bundle directories
Wipe ==
  /\ pc = "idle"
  /\ run > 0
  /\ files # {} \/ dirs # {}
  /\ files' = {}
  /\ dirs' = {}
  /\ UNCHANGED <<settings, bundles, ci, cwd, calls, run, clean, pc, args,
                 index, log, signCalls, handed, result, prev>>

AppBundle ==
  /\ pc = "app"
  /\ \/ /\ ~NeedsAppBundle(bundles)
        /\ pc' = "clean"
        /\ UNCHANGED <<log, result>>
     \/ /\ NeedsAppBundle(bundles)
        /\ Did("app_builder", TRUE)
        /\ pc' = "clean"
        /\ UNCHANGED result
     \/ /\ NeedsAppBundle(bundles)
        /\ Did("app_builder", FALSE)
        /\ Return(Err("app_builder"))
  /\ UNCHANGED <<settings, bundles, ci, cwd, calls, run, clean, files, dirs, args, index,
                 signCalls, handed, prev>>

----------------------------------------------------------------------------
(* Lines 55-65: recreate the output directory *)

RemoveOld ==
  /\ pc = "clean"
  /\ \/ /\ ~Exists(output_path)
        /\ pc' = "mkdir"
        /\ UNCHANGED <<files, dirs, log, result>>
     \/ /\ Exists(output_path)
        /\ Did("remove_dir_all", TRUE)
        /\ files' = RemoveDirAll(files, output_path)
        /\ dirs' = RemoveDirs(dirs, output_path)
        /\ pc' = "mkdir"
        /\ UNCHANGED result
     \/ \* remove_dir_all fails part-way: any part of the tree may be left
        /\ Exists(output_path)
        /\ Did("remove_dir_all", FALSE)
        /\ \E keep \in SUBSET {f \in files : Under(f.path, output_path)} :
             /\ files' = RemoveDirAll(files, output_path) \cup keep
             /\ \E d \in SUBSET {support_directory_path} :
                  dirs' = {output_path} \cup DirsFor(settings, keep) \cup (d \cap dirs)
        /\ Return(Err("remove_dir_all"))
  /\ UNCHANGED <<settings, bundles, ci, cwd, calls, run, clean, args, index, signCalls,
                 handed, prev>>

CreateSupport ==
  /\ pc = "mkdir"
  /\ \/ /\ Did("create_dir_all", TRUE)
        /\ dirs' = dirs \cup {output_path, support_directory_path}
        /\ pc' = "write_script"
        /\ UNCHANGED result
     \/ \* fails after creating none or some of the missing ancestors
        /\ Did("create_dir_all", FALSE)
        /\ \E d \in {dirs, dirs \cup {output_path}} : dirs' = d
        /\ Return(Err("create_dir_all"))
  /\ UNCHANGED <<settings, bundles, ci, cwd, calls, run, clean, files, args, index,
                 signCalls, handed, prev>>

----------------------------------------------------------------------------
(* Lines 72-84: write the scripts *)

Write(at, op, path, next) ==
  /\ pc = at
  /\ \/ /\ Did(op, TRUE)
        /\ files' = WriteFile(files, path)
        /\ pc' = next
        /\ UNCHANGED result
     \/ \* the write fails before or after the file was created
        /\ Did(op, FALSE)
        /\ \E fs \in {files, WriteFile(files, path)} : files' = fs
        /\ Return(Err(op))
  /\ UNCHANGED <<settings, bundles, ci, cwd, calls, run, clean, dirs, args, index,
                 signCalls, handed, prev>>

WriteScript == Write("write_script", "write_script", bundle_script_path, "write_applescript")
WriteAppleScript == Write("write_applescript", "write_applescript", applescript_path, "write_eula")
WriteEula == Write("write_eula", "write_eula", eula_template_path, "chmod")

----------------------------------------------------------------------------
(* Lines 86-94: chmod script for execution *)

\* Command::output() is Err only when chmod cannot be spawned; .expect()
\* panics on that Err; the exit status of a chmod that ran is never read
ChmodOutcomes == {"ok", "nonzero_exit", "spawn_failed"}
ChmodEscalated(o) == IF o = "ok" THEN "base" ELSE "error"
ChmodNext(o) == IF o = "spawn_failed" THEN "panic" ELSE "base"

Chmod ==
  /\ pc = "chmod"
  /\ \E o \in ChmodOutcomes :
       /\ DidAs("chmod", o)
       /\ IF ChmodNext(o) = "panic"
            THEN Return(Panic("chmod"))
            ELSE IF ChmodNext(o) = "error"
              THEN Return(Err("chmod"))
              ELSE pc' = ChmodNext(o) /\ UNCHANGED result
  /\ UNCHANGED <<settings, bundles, ci, cwd, calls, run, clean, files, dirs, args, index,
                 signCalls, handed, prev>>

----------------------------------------------------------------------------
(* Lines 96-114: the fixed arguments *)

BaseArgs(product, bundle) ==
  <<"--no-internet-enable",
    "--volname", product,
    "--icon-size", ToString(IconSize),
    "--icon", bundle, ToString(IconX), ToString(IconY),
    "--app-drop-link", ToString(DropLinkX), ToString(IconY),
    "--window-size", ToString(WindowWidth), ToString(WindowHeight),
    "--hide-extension", bundle>>

InitArgs ==
  /\ pc = "base"
  /\ args' = BaseArgs(product_name, bundle_file_name)
  /\ index' = 0
  /\ pc' = "attach"
  /\ UNCHANGED <<settings, bundles, ci, cwd, calls, run, clean, files, dirs, log,
                 signCalls, handed, result, prev>>

----------------------------------------------------------------------------
(* Lines 116-140: one --add-file entry per attachment, two per row *)

\* slice::chunks(2): the number of chunks and the i-th chunk (0-based)
NumChunks(s) == (Len(s) + 1) \div 2
Chunk(s, i) == SubSeq(s, 2 * i + 1, IF 2 * i + 2 <= Len(s) THEN 2 * i + 2 ELSE Len(s))

RowYFromZero(i) == IconY + i * (IconSize + RowGap)
RowY(i) == IconY + (i + 1) * (IconSize + RowGap)

AddFile(name, x, y) == <<"--add-file", name, name, ToString(x), ToString(y)>>

\* settings.macos().attachments is None, or the loop has run out of chunks
AttachDone ==
  /\ pc = "attach"
  /\ \/ ~IsSome(settings.attachments)
     \/ IsSome(settings.attachments) /\ index >= NumChunks(settings.attachments[1])
  /\ pc' = "icon"
  /\ UNCHANGED <<settings, bundles, ci, cwd, calls, run, clean, files, dirs, args, index,
                 log, signCalls, handed, result, prev>>

\* one iteration of the loop over attachments.chunks(2).enumerate()
AttachRow ==
  /\ pc = "attach"
  /\ IsSome(settings.attachments)
  /\ index < NumChunks(settings.attachments[1])
  /\ LET pair == Chunk(settings.attachments[1], index)
         first == file_name(pair[1])
         y == RowY(index)
     IN  \/ \* pair[0].file_name().unwrap() panics
            /\ ~IsSome(first)
            /\ Return(Panic("attachment"))
            /\ UNCHANGED <<args, index>>
         \/ /\ IsSome(first)
            /\ Len(pair) = 1
            /\ args' = args \o AddFile(first[1], IconX, y)
            /\ index' = index + 1
            /\ UNCHANGED <<pc, result>>
         \/ /\ IsSome(first)
            /\ Len(pair) = 2
            /\ IsSome(file_name(pair[2]))
            /\ args' = args \o AddFile(first[1], IconX, y)
                            \o AddFile(file_name(pair[2])[1], DropLinkX, y)
            /\ index' = index + 1
            /\ UNCHANGED <<pc, result>>
         \/ \* pair[1].file_name().unwrap() panics
            /\ IsSome(first)
            /\ Len(pair) = 2
            /\ ~IsSome(file_name(pair[2]))
            /\ Return(Panic("attachment"))
            /\ args' = args \o AddFile(first[1], IconX, y)
            /\ UNCHANGED index
  /\ UNCHANGED <<settings, bundles, ci, cwd, calls, run, clean, files, dirs, log,
                 signCalls, handed, prev>>

----------------------------------------------------------------------------
(* Lines 142-147: the volume icon *)

\* icon::create_icns_file(out_dir, settings): Ok(None) when the settings
\* name no icon files, else Ok(Some(<out_dir>/<product>.icns)), or Err
create_icns_file(out_dir, s) ==
  IF s.icons THEN Some(out_dir \o <<s.name \o ".icns">>) ELSE None

VolIcon ==
  /\ pc = "icon"
  /\ \/ /\ Did("create_icns_file", TRUE)
        /\ LET icns_icon_path == create_icns_file(output_path, settings)
           IN  IF IsSome(icns_icon_path)
                 THEN /\ files' = WriteFile(files, icns_icon_path[1])
                      /\ args' = args \o <<"--volicon", to_string_lossy(icns_icon_path[1])>>
                 ELSE UNCHANGED <<files, args>>
        /\ pc' = "background"
        /\ UNCHANGED result
     \/ /\ settings.icons
        /\ Did("create_icns_file", FALSE)
        /\ Return(Err("create_icns_file"))
        /\ UNCHANGED <<files, args>>
  /\ UNCHANGED <<settings, bundles, ci, cwd, calls, run, clean, dirs, index, signCalls,
                 handed, prev>>

----------------------------------------------------------------------------
(* Lines 149-152: the background image *)

BackgroundFullPath(background) ==
  IF IsSome(file_name(background)) THEN Some(to_string_lossy(background)) ELSE None
BackgroundArg(background) == file_name(background)

Background ==
  /\ pc = "background"
  /\ \/ /\ ~IsSome(settings.background)
        /\ pc' = "license"
        /\ UNCHANGED <<args, result>>
     \/ /\ IsSome(settings.background)
        /\ IsSome(BackgroundArg(settings.background[1]))
        /\ args' = args \o <<"--background", BackgroundArg(settings.background[1])[1]>>
        /\ pc' = "license"
        /\ UNCHANGED result
     \/ \* background.file_name().unwrap() panics
        /\ IsSome(settings.background)
        /\ ~IsSome(BackgroundArg(settings.background[1]))
        /\ args' = args \o <<"--background">>
        /\ Return(Panic("background"))
  /\ UNCHANGED <<settings, bundles, ci, cwd, calls, run, clean, files, dirs, index, log,
                 signCalls, handed, prev>>

----------------------------------------------------------------------------
(* Lines 154-163: the license *)

LicenseArg(dir, license_path) == to_string_lossy(Join(dir, license_path))

License ==
  /\ pc = "license"
  /\ \/ /\ ~IsSome(settings.license)
        /\ pc' = "ci"
        /\ UNCHANGED <<args, log, result, cwd>>
     \/ /\ IsSome(settings.license)
        /\ Did("current_dir", TRUE)
        /\ \E d \in CwdValues :
             /\ cwd' = d
             /\ args' = args \o <<"--eula", LicenseArg(d, settings.license[1])>>
        /\ pc' = "ci"
        /\ UNCHANGED result
     \/ \* env::current_dir()? fails after "--eula" was pushed
        /\ IsSome(settings.license)
        /\ Did("current_dir", FALSE)
        /\ args' = args \o <<"--eula">>
        /\ Return(Err("current_dir"))
        /\ UNCHANGED cwd
  /\ UNCHANGED <<settings, bundles, ci, calls, run, clean, files, dirs, index,
                 signCalls, handed, prev>>

----------------------------------------------------------------------------
(* Lines 165-171: --skip-jenkins on CI *)

IsCISet(value) == IsSome(value)
IsCI(value) == IsSome(value) /\ value[1] = "true"

SkipJenkins ==
  /\ pc = "ci"
  /\ \E value \in CIValues :
       /\ ci' = value
       /\ args' = IF IsCI(value) THEN Append(args, "--skip-jenkins") ELSE args
  /\ pc' = "exec"
  /\ UNCHANGED <<settings, bundles, cwd, calls, run, clean, files, dirs, index, log,
                 signCalls, handed, result, prev>>

----------------------------------------------------------------------------
(* Lines 175-181: execute the bundle script *)

Command(program, dir, argv) == [program |-> program, dir |-> dir, argv |-> argv]

\* output_ok(): Err when the script cannot be spawned or exits non-zero
ExecOutcomes == {"ok", "nonzero_exit", "spawn_failed"}

RunScript ==
  /\ pc = "exec"
  /\ handed' = Some(Command(bundle_script_path, bundle_dir,
                            args \o <<dmg_name, bundle_file_name>>))
  /\ \E o \in ExecOutcomes :
       /\ DidAs("bundle_dmg.sh", o)
       /\ \/ \* exit status 0; the tool normally leaves <bundle_dir>/<dmg_name>
             /\ o = "ok"
             /\ \E fs \in {files, WriteFile(files, bundle_dir \o <<dmg_name>>)} :
                  files' = fs
             /\ pc' = "rename"
             /\ UNCHANGED result
          \/ /\ o # "ok"
             /\ Return(Err("bundle_dmg.sh"))
             /\ UNCHANGED files
  /\ UNCHANGED <<settings, bundles, ci, cwd, calls, run, clean, dirs, args, index,
                 signCalls, prev>>

----------------------------------------------------------------------------
(* Line 183: move the image to its final path *)

RenameDmg ==
  /\ pc = "rename"
  /\ \/ /\ Exists(bundle_dir \o <<dmg_name>>)
        /\ Did("rename", TRUE)
        /\ files' = Rename(files, bundle_dir \o <<dmg_name>>, dmg_path)
        /\ pc' = "sign"
        /\ UNCHANGED result
     \/ /\ Did("rename", FALSE)
        /\ Return(Err("rename"))
        /\ UNCHANGED files
  /\ UNCHANGED <<settings, bundles, ci, cwd, calls, run, clean, dirs, args, index,
                 signCalls, handed, prev>>

----------------------------------------------------------------------------
(* Lines 185-189: sign the image if needed, return its path *)

\* the arguments of sign::sign(path, identity, settings, is_an_entitlement)
SignCall(path, identity) ==
  [path |-> path, identity |-> identity, is_an_entitlement |-> FALSE]

SignAndReturn ==
  /\ pc = "sign"
  /\ \/ /\ ~IsSome(settings.signing_identity)
        /\ Return(Ok(<<dmg_path>>))
        /\ UNCHANGED <<log, signCalls>>
     \/ /\ IsSome(settings.signing_identity)
        /\ signCalls' = Append(signCalls, SignCall(dmg_path, settings.signing_identity[1]))
        /\ \/ Did("sign", TRUE) /\ Return(Ok(<<dmg_path>>))
           \/ Did("sign", FALSE) /\ Return(Err("sign"))
  /\ UNCHANGED <<settings, bundles, ci, cwd, calls, run, clean, files, dirs, args, index,
                 handed, prev>>

----------------------------------------------------------------------------
(* Specifications *)

InitWith(S, stale, n) ==
  /\ settings \in S
  /\ bundles = <<>>
  /\ ci = None
  /\ cwd = <<>>
  /\ calls = n
  /\ run = 0
  /\ clean = FALSE
  /\ pc = "idle"
  /\ files \in (IF stale THEN SUBSET StaleFiles(settings) ELSE {{}})
  /\ dirs \in (IF files = {} /\ stale
                 THEN {{}, {output_path}, {output_path, support_directory_path}}
                 ELSE {DirsFor(settings, files)})
  /\ args = <<>>
  /\ index = 0
  /\ log = <<>>
  /\ signCalls = <<>>
  /\ handed = None
  /\ result = NoResult
  /\ prev = [valid |-> FALSE, clean |-> FALSE, ci |-> None, cwd |-> <<>>,
             handed |-> None, result |-> NoResult]

Next ==
  \/ Start
  \/ Wipe
  \/ AppBundle
  \/ RemoveOld
  \/ CreateSupport
  \/ WriteScript
  \/ WriteAppleScript
  \/ WriteEula
  \/ Chmod
  \/ InitArgs
  \/ AttachDone
  \/ AttachRow
  \/ VolIcon
  \/ Background
  \/ License
  \/ SkipJenkins
  \/ RunScript
  \/ RenameDmg
  \/ SignAndReturn

\* one call of the pipeline, on any prior contents of the output directory
Base ==
  [out |-> <<"target", "release">>, name |-> "MyApp", version |-> "1.0.0",
   arch |-> "x86_64", attachments |-> None, background |-> None,
   license |-> None, signing_identity |-> None, icons |-> FALSE]

Full ==
  [Base EXCEPT !.attachments = Some(<< <<"LICENSE">> >>),
               !.background = Some(<<"img", "bg.png">>),
               !.license = Some(<<"LICENSE.rtf">>),
               !.signing_identity = Some("Developer ID"),
               !.icons = TRUE]

PipelineSettings ==
  {Base, Full,
   [Base EXCEPT !.signing_identity = Some("Developer ID")],
   [Base EXCEPT !.attachments = Some(<<BadAttachment, <<"LICENSE">> >>)],
   [Full EXCEPT !.attachments = Some(<< <<"LICENSE">>, BadAttachment>>)],
   [Full EXCEPT !.background = Some(<<"..">>)]}

Init == InitWith(PipelineSettings, TRUE, 1)
Spec == Init /\ [][Next]_vars

\* MaxRuns calls in a row with the same settings
InitRuns ==
  InitWith({[Base EXCEPT !.attachments = Some(<< <<"LICENSE">> >>),
                         !.license = Some(<<"LICENSE.rtf">>)]},
           TRUE, MaxRuns)
SpecRuns == InitRuns /\ [][Next]_vars

\* one call, over the settings that shape the argument list
ArgSettings ==
  {[Base EXCEPT !.attachments = Some(a)] : a \in AttachmentLists(GoodAttachments)}
  \cup
  {[Base EXCEPT !.arch = ar] : ar \in {"universal", "x64", "i686"}}
  \cup
  {[Base EXCEPT !.arch = ar, !.attachments = at, !.background = bg,
                !.license = li, !.signing_identity = id, !.icons = ic] :
     ar \in {"x86_64", "aarch64"},
     at \in {None, Some(<< <<"assets", "README.md">> >>),
             Some(<<BadAttachment>>), Some(<< <<"LICENSE">>, BadAttachment>>)},
     bg \in Backgrounds, li \in Licenses, id \in Identities, ic \in BOOLEAN}

InitArgsOnly == InitWith(ArgSettings, TRUE, 1)
SpecArgs == InitArgsOnly /\ [][Next]_vars

----------------------------------------------------------------------------
(* Properties *)

Ops(l) == {l[i].op : i \in 1..Len(l)}
Count(l, op) == Cardinality({i \in 1..Len(l) : l[i].op = op})
Outcome(op) == {log[i].outcome : i \in {j \in 1..Len(log) : log[j].op = op}}
Ended == pc = "idle" /\ run > 0
Invoked == IsSome(handed)

\* C1: a failure of any stage operation ends the run with an error returned
\* to the caller: the failed operation is the last one performed, and no
\* operation is performed twice.
C1_SingleFailureAborts ==
  /\ \A i \in 1..Len(log) :
       ~log[i].ok => i = Len(log) /\ pc = "idle" /\ result.kind = "err"
  /\ \A i, j \in 1..Len(log) : log[i].op = log[j].op => i = j

\* the same for every operation but the permission change
AbortsExceptChmod ==
  /\ \A i \in 1..Len(log) :
       (~log[i].ok /\ log[i].op # "chmod") =>
          i = Len(log) /\ pc = "idle" /\ result.kind = "err"
  /\ \A i, j \in 1..Len(log) : log[i].op = log[j].op => i = j

\* a failing step leaves every file under the output directory in place
\* unless the step is the removal itself
NoRollback ==
  [][(result'.kind \in {"err", "panic"} /\ result.kind = "none"
        /\ result'.stage # "remove_dir_all")
       => files \subseteq files']_vars

----------------------------------------------------------------------------

StagingDone ==
  /\ pc # "idle"
  /\ \E i \in 1..Len(log) : log[i].op = "write_eula" /\ log[i].ok
UnderOutput == {f \in files : Under(f.path, output_path)}
SupportContents == {f.path : f \in {g \in files : Under(g.path, support_directory_path)}}

\* C2: once a run has finished staging, the support directory holds exactly
\* template.applescript and eula-resources-template.xml, and every file
\* under the output directory was put there by this run, whatever lay there
\* before: it was written by this run, or it is the image this run's rename
\* moved in from <project-out>/bundle/macos.
C2_CleanSlate ==
  StagingDone =>
    /\ SupportContents = {settings.out \o <<"bundle", "dmg", "support", "template.applescript">>,
                          settings.out \o <<"bundle", "dmg", "support", "eula-resources-template.xml">>}
    /\ \A f \in UnderOutput :
         \/ f.by = run
         \/ f.path = settings.out \o <<"bundle", "dmg", "MyApp_1.0.0_x64.dmg">>
              /\ [op |-> "rename", ok |-> TRUE, outcome |-> "ok"] = Last(log)

C2_Witness ==
  /\ StagingDone
  /\ run = 2
  /\ "remove_dir_all" \in Ops(log)
  /\ prev.result.kind = "err"

----------------------------------------------------------------------------

Renamed == \E i \in 1..Len(log) : log[i].op = "rename" /\ log[i].ok
EarlierAllOk == \A i \in 1..Len(log) : log[i].op # "sign" => log[i].ok

\* C3: by the end of a run the Signer has been called exactly once if an
\* identity is configured and every earlier stage succeeded, and not at all
\* otherwise; a call comes after the rename and carries the final artifact
\* path, the identity and the entitlement flag false.
C3_SignerIffIdentityAndAllStagesOk ==
  /\ Len(signCalls) <= 1
  /\ (Ended /\ result.kind # "panic") =>
       (Len(signCalls) = 1 <=>
          (IsSome(settings.signing_identity) /\ EarlierAllOk /\ Renamed))
  /\ \A i \in 1..Len(signCalls) :
       /\ Renamed
       /\ signCalls[i].path = settings.out \o <<"bundle", "dmg", "MyApp_1.0.0_x64.dmg">>
       /\ signCalls[i].identity = settings.signing_identity[1]
       /\ signCalls[i].is_an_entitlement = FALSE

----------------------------------------------------------------------------

HasAppBundle == \E i \in 1..Len(bundles) : bundles[i] = "MacOsBundle"

\* C8: in every run the Application Bundle Builder is called exactly once,
\* as the first operation, when the bundles hold no macOS application
\* bundle, and never when they hold one.
C8_BuilderIffNoAppBundle ==
  (run > 0 /\ pc # "app") =>
     /\ HasAppBundle => Count(log, "app_builder") = 0
     /\ ~HasAppBundle => (Count(log, "app_builder") = 1 /\ log[1].op = "app_builder")

C8_Witness ==
  /\ Ended
  /\ result.kind = "ok"
  /\ bundles = <<"Deb", "Deb">>
  /\ log[1].op = "app_builder"
  /\ Len(log) > 5

----------------------------------------------------------------------------

\* C10, as claimed: whenever the chmod step fails, by a non-zero exit or by
\* not running at all, the run is not ended by it.
C10_ChmodFailureTolerated ==
  (Len(log) > 0 /\ Last(log).op = "chmod" /\ ~Last(log).ok) =>
     ~(pc = "idle" /\ result.stage = "chmod")

\* C10, amended: a chmod that ran and exited non-zero does not end the run,
\* which goes on to build the argument list; a chmod that could not be
\* spawned ends the run with a panic before bundle_dmg.sh is invoked.
C10_NonZeroExitTolerated ==
  (Len(log) > 0 /\ Last(log).op = "chmod") =>
     /\ Last(log).outcome = "nonzero_exit" =>
          \/ pc \in {"base", "attach", "icon"} /\ result.kind = "none"
          \/ pc = "idle" /\ result = Panic("attachment")
     /\ Last(log).outcome = "spawn_failed" =>
          pc = "idle" /\ result = Panic("chmod") /\ ~Invoked

C10_Witness ==
  /\ Outcome("chmod") = {"nonzero_exit"}
  /\ Invoked
  /\ Ended
  /\ result.kind = "ok"

----------------------------------------------------------------------------

\* C9, as claimed: two runs with the same Settings, each started on a clean
\* filesystem, hand the same argument list to bundle_dmg.sh.
C9_SameSettingsSameArgs ==
  (prev.valid /\ prev.clean /\ clean /\ IsSome(prev.handed) /\ Invoked) =>
     handed[1].argv = prev.handed[1].argv

\* C9, amended: two runs with the same Settings that read the same CI value
\* and the same current directory hand the same command to bundle_dmg.sh,
\* and two runs with the same Settings that succeed return the same paths.
C9_SameSettingsAndEnvSameArgs ==
  /\ (prev.valid /\ IsSome(prev.handed) /\ Invoked /\ prev.ci = ci /\ prev.cwd = cwd)
       => handed = prev.handed
  /\ (prev.valid /\ prev.result.kind = "ok" /\ result.kind = "ok")
       => result.paths = prev.result.paths

C9_Witness ==
  /\ prev.valid /\ prev.clean /\ clean
  /\ prev.result.kind = "ok" /\ result.kind = "ok"
  /\ prev.ci = Some("true") /\ ci = Some("true")
  /\ IsSome(settings.license) /\ prev.cwd = cwd

----------------------------------------------------------------------------

ExpectedDmgName ==
  "MyApp_1.0.0_" \o (IF settings.arch = "x86_64" THEN "x64" ELSE settings.arch) \o ".dmg"

\* C4: a successful run returns exactly one path,
\* <project-out>/bundle/dmg/<binaryName>_<version>_<arch>.dmg with x86_64
\* written x64 and every other architecture unchanged, and its file name is
\* the artifact-name argument of bundle_dmg.sh.
C4_ArtifactPath ==
  (Ended /\ result.kind = "ok") =>
     /\ Len(result.paths) = 1
     /\ result.paths[1] = settings.out \o <<"bundle", "dmg", ExpectedDmgName>>
     /\ Invoked
     /\ handed[1].argv[Len(handed[1].argv) - 1] = ExpectedDmgName

C4_Witness ==
  /\ Ended
  /\ result.kind = "ok"
  /\ settings.arch = "x86_64"
  /\ result.paths = << <<"target", "release", "bundle", "dmg", "MyApp_1.0.0_x64.dmg">> >>

----------------------------------------------------------------------------

Attachments == IF IsSome(settings.attachments) THEN settings.attachments[1] ELSE <<>>

\* the entry claimed for the attachment at 0-based position k
ExpectedAddFile(k) ==
  <<"--add-file", Last(Attachments[k + 1]), Last(Attachments[k + 1]),
    IF k % 2 = 0 THEN "75" ELSE "396",
    ToString(64 + ((k \div 2) + 1) * 160)>>

\* C5: the argument list holds one --add-file entry per attachment, in input
\* order, the k-th (from 0) at x = 75 for even k and 396 for odd k and at
\* y = 64 + (k div 2 + 1) * 160; five attachments lie at y = 224, 224, 384,
\* 384, 544, the last one alone in its row.
C5_AttachmentGrid ==
  Invoked =>
    LET argv == handed[1].argv
        n == Len(Attachments)
    IN  /\ Cardinality({i \in 1..Len(argv) : argv[i] = "--add-file"}) = n
        /\ \A k \in 0..(n - 1) :
             SubSeq(argv, 17 + 5 * k + 1, 17 + 5 * k + 5) = ExpectedAddFile(k)
        /\ n = 5 =>
             /\ <<argv[22], argv[27], argv[32], argv[37], argv[42]>>
                  = <<"224", "224", "384", "384", "544">>
             /\ <<argv[21], argv[26], argv[31], argv[36], argv[41]>>
                  = <<"75", "396", "75", "396", "75">>

C5_Witness ==
  /\ Invoked
  /\ Len(Attachments) = 5
  /\ handed[1].argv[42] = "544"
  /\ handed[1].argv[41] = "75"

----------------------------------------------------------------------------

RECURSIVE ExpectedAddFiles(_)
ExpectedAddFiles(n) ==
  IF n = 0 THEN <<>> ELSE ExpectedAddFiles(n - 1) \o ExpectedAddFile(n - 1)

ExpectedBase ==
  <<"--no-internet-enable", "--volname", "MyApp", "--icon-size", "100",
    "--icon", "MyApp.app", "75", "64", "--app-drop-link", "396", "64",
    "--window-size", "571", "375", "--hide-extension", "MyApp.app">>

ExpectedEula ==
  IF settings.license[1] = <<"/", "legal", "EULA.rtf">> THEN "/legal/EULA.rtf"
  ELSE IF cwd = <<"/", "work">> THEN "/work/LICENSE.rtf" ELSE "/ci/LICENSE.rtf"

\* C6: the arguments handed to bundle_dmg.sh are the 17 base arguments, the
\* --add-file entries, --volicon <path> iff the Icon Converter returned a
\* path, --background <file name> iff a background is configured,
\* --eula <absolute path> iff a license is configured, --skip-jenkins if
\* emitted, then <artifact name> <app-bundle name>, in this order.
C6_ArgumentOrder ==
  Invoked =>
    /\ handed[1].argv =
         ExpectedBase
           \o ExpectedAddFiles(Len(Attachments))
           \o (IF settings.icons
                 THEN <<"--volicon", "target/release/bundle/dmg/MyApp.icns">> ELSE <<>>)
           \o (IF IsSome(settings.background)
                 THEN <<"--background", Last(settings.background[1])>> ELSE <<>>)
           \o (IF IsSome(settings.license) THEN <<"--eula", ExpectedEula>> ELSE <<>>)
           \o (IF ci = <<"true">> THEN <<"--skip-jenkins">> ELSE <<>>)
           \o <<ExpectedDmgName, "MyApp.app">>
    /\ handed[1].dir = settings.out \o <<"bundle", "macos">>
    /\ (Attachments = <<>> /\ ~settings.icons /\ ~IsSome(settings.background)
          /\ ~IsSome(settings.license) /\ ci # <<"true">>)
         => Len(handed[1].argv) = 19

C6_Witness ==
  /\ Invoked
  /\ Len(Attachments) = 1
  /\ settings.icons
  /\ settings.background = Some(<<"img", "bg.png">>)
  /\ settings.license = Some(<<"LICENSE.rtf">>)
  /\ ci = <<"true">>
  /\ Len(handed[1].argv) = 17 + 5 + 2 + 2 + 2 + 1 + 2

----------------------------------------------------------------------------

\* C7: the arguments handed to bundle_dmg.sh hold --skip-jenkins if and
\* only if CI is set and is exactly "true".
C7_SkipJenkinsIffCITrue ==
  Invoked =>
    ((\E i \in 1..Len(handed[1].argv) : handed[1].argv[i] = "--skip-jenkins")
       <=> ci = <<"true">>)

C7_Witness ==
  /\ Invoked
  /\ ci = <<"true">>
  /\ \E i \in 1..Len(handed[1].argv) : handed[1].argv[i] = "--skip-jenkins"

C7_WitnessOtherValue ==
  /\ Invoked
  /\ ci = <<"TRUE">>
  /\ \A i \in 1..Len(handed[1].argv) : handed[1].argv[i] # "--skip-jenkins"

====
